---------------------------- MODULE Spec2Model ----------------------------
(***************************************************************************)
(* Session store, mode engine, conversation handlers and connection        *)
(* registry of the AI video call backend (backend/app.py,                  *)
(* backend/services/session_manager.py, backend/services/groq_service.py). *)
(*                                                                         *)
(* Scheduling.  All websocket handlers and REST endpoints are coroutines   *)
(* of one asyncio event loop: a handler runs without interruption by       *)
(* another handler until it awaits (the awaits are the send_json calls and *)
(* receive_json).  The calls into GroqService and SessionManager are       *)
(* synchronous, so the event loop is held while the LLM is called.  The    *)
(* only other thread is the SessionManager cleanup thread, which can run   *)
(* between any two steps of a handler and is excluded only by the store    *)
(* lock.  Time (datetime.now()) may advance between any two steps.         *)
(***************************************************************************)
EXTENDS Integers, Sequences, FiniteSets, TLC

(***************************************************************************)
(* Program constants                                                       *)
(***************************************************************************)
HISTORY_CAP == 30
DEFAULT_MAX_AGE == 3600
CLEANUP_INTERVAL == 600
DEFAULT_TOTAL_QUESTIONS == 5

(***************************************************************************)
(* Bounds of the model                                                     *)
(***************************************************************************)
MaxSessions == 1    \* session identifiers create_session may allocate
MaxEvents == 3      \* websocket events and REST requests dispatched
MaxTicks == 1       \* advances of the clock
MaxOverCap == 2     \* SpecCap: turns added to a session beyond HISTORY_CAP
MaxStoreOps == 3    \* SpecStore: calls of the store's methods
MaxStoreSessions == 2   \* SpecStore, SpecCap: sessions created
MaxStoreTicks == 2  \* SpecStore: advances of the clock, one second each
MaxTurns == 9       \* SpecInterview: text events after the init-session
MaxSharedEvents == 5    \* SpecShared: websocket events dispatched
MaxManagerOps == 8      \* SpecManager: calls of the connection manager
MaxDebateEvents == 4    \* SpecDebate: websocket events dispatched
MaxLiveEvents == 2      \* SpecLive: websocket events dispatched
MaxTwinEvents == 2      \* SpecTwin: websocket events dispatched

VARIABLES
    sessions,             \* SessionManager.sessions: session id -> session dict
    nextId,               \* number of identifiers uuid4 has produced so far
    clock,                \* datetime.now().timestamp()
    ticks,                \* advances of the clock so far (bounds the model)
    events,               \* events and requests dispatched so far (bounds the model)
    budget,               \* events and requests that may be dispatched in all
    lock,                 \* SessionManager.lock: "free" or its holder
    reaper,               \* the cleanup thread: [pc, since, now, seen]
    active_connections,   \* ConnectionManager.active_connections: client id -> socket
    connection_sessions,  \* ConnectionManager.connection_sessions: client id -> session id
    worker,               \* per socket: the websocket_endpoint coroutine serving it
    loop,                 \* the coroutine the event loop is running ("free": none)
    rest,                 \* outcome of the last REST request
    lastOp,               \* SpecStore, SpecCap: the last store call and its result
    appended              \* SpecCap: every turn passed to add_message, per session

vars == <<sessions, nextId, clock, ticks, events, budget, lock, reaper, active_connections,
          connection_sessions, worker, loop, rest, lastOp, appended>>

(***************************************************************************)
(* Values                                                                  *)
(***************************************************************************)
EmptyDict == [k \in {} |-> 0]

\* dict.get(key, default)
Get(d, k, default) == IF k \in DOMAIN d THEN d[k] ELSE default

\* dict.update(u)
DictUpdate(d, u) ==
    [k \in DOMAIN d \cup DOMAIN u |-> IF k \in DOMAIN u THEN u[k] ELSE d[k]]

Min(a, b) == IF a <= b THEN a ELSE b

\* lst[-n:]
LastN(s, n) == IF Len(s) <= n THEN s ELSE SubSeq(s, Len(s) - n + 1, Len(s))

NoMode == "None"     \* data.get('mode') of an event that carries no mode
Modes == {"chat", "interview", "debate"}
ModeInputs == Modes \cup {NoMode}

NoSid == -1          \* no sessionId in the event (None)
UnknownSid == 0      \* an identifier create_session never returned

\* the "config" objects clients send: none of the options, or these
FullConfig ==
    [role |-> "Backend Engineer", totalQuestions |-> 1,
     topic |-> "X", stance |-> "CON", preferences |-> [lang |-> "en"]]
Configs == {EmptyDict, FullConfig}

\* the (mode, config) pairs of the init-session and change-mode events and of
\* the REST requests
ModeConfigs ==
    { <<"chat", EmptyDict>>, <<"interview", FullConfig>>,
      <<"debate", EmptyDict>>, <<NoMode, EmptyDict>> }

Sockets == {"w1", "w2"}      \* websocket objects (one endpoint coroutine each)
ClientIds == {"a", "b"}      \* the client_id of the URL /ws/{client_id}
NoSocket == "none"
\* client identifiers are interchangeable: the first socket connects as "a",
\* the second under the same identifier or another one
ClientIdsOf(w) == IF w = "w1" THEN {"a"} ELSE ClientIds

\* the "text" of a text-message event, before strip(); <<>> is also what
\* data.get('text', '') gives for an event without text
UserTexts == {<<"hi">>, <<" ">>, <<>>}

\* the LLM collaborator at one call: whether GroqService has a client
\* (GROQ_API_KEY was set), and what client.chat.completions.create returns
\* (ok) or raises (~ok)
LLMOutcomes ==
    { [client |-> TRUE, ok |-> TRUE, content |-> <<"o", "k", "?">>],
      [client |-> TRUE, ok |-> TRUE, content |-> <<"o", "k", " ">>],
      [client |-> TRUE, ok |-> FALSE, content |-> <<>>],
      [client |-> FALSE, ok |-> FALSE, content |-> <<>>] }
LLMGreetingOutcomes ==
    { [client |-> TRUE, ok |-> TRUE, content |-> <<"Hi! Ready?", " ">>],
      [client |-> TRUE, ok |-> FALSE, content |-> <<>>],
      [client |-> FALSE, ok |-> FALSE, content |-> <<>>] }

(***************************************************************************)
(* SessionManager (services/session_manager.py)                            *)
(*                                                                         *)
(* Every store method is an operator from the store to a result record     *)
(* [store, ret, raised]: the store after the call, the returned value and  *)
(* whether the call raised.  An Optional is a sequence of length 0 or 1.   *)
(***************************************************************************)
Result(S, r) == [store |-> S, ret |-> r, raised |-> FALSE]
Raise(S) == [store |-> S, ret |-> <<>>, raised |-> TRUE]

InitializeModeData(mode, config) ==
    IF mode = "interview" THEN
        [role |-> Get(config, "role", "Software Engineer"),
         company |-> Get(config, "company", "Tech Company"),
         question_index |-> 0,
         total_questions |-> Get(config, "totalQuestions", DEFAULT_TOTAL_QUESTIONS),
         scores |-> <<>>,
         evaluations |-> <<>>]
    ELSE IF mode = "debate" THEN
        [topic |-> Get(config, "topic", "AI in society"),
         stance |-> Get(config, "stance", "pro"),
         arguments_made |-> <<>>,
         counter_arguments |-> <<>>]
    ELSE
        [user_preferences |-> Get(config, "preferences", EmptyDict),
         emotional_tone |-> "friendly"]

Turn(role, text, now) == [role |-> role, text |-> text, timestamp |-> now]

CreateSession(S, sid, mode, config, now) ==
    LET session == [session_id |-> sid,
                    mode |-> mode,
                    conversation_history |-> <<>>,
                    mode_specific_data |-> InitializeModeData(mode, config),
                    created_at |-> now,
                    last_activity |-> now]
    IN  Result([k \in DOMAIN S \cup {sid} |-> IF k = sid THEN session ELSE S[k]], sid)

GetSession(S, sid) ==
    Result(S, IF sid \in DOMAIN S THEN <<S[sid]>> ELSE <<>>)

\* add_message as it would be with [:30] for [-30:]: the newest turn is dropped
AddMessageKeepsOldest(S, sid, role, text, now) ==
    IF sid \notin DOMAIN S THEN Result(S, <<>>)
    ELSE
        LET h == Append(S[sid].conversation_history, Turn(role, text, now))
        IN  Result([S EXCEPT ![sid].conversation_history =
                                 IF Len(h) > HISTORY_CAP THEN SubSeq(h, 1, HISTORY_CAP) ELSE h,
                             ![sid].last_activity = now], <<>>)

AddMessage(S, sid, role, text, now) ==
    IF sid \notin DOMAIN S THEN Result(S, <<>>)
    ELSE
        LET h == Append(S[sid].conversation_history, Turn(role, text, now))
        IN  Result([S EXCEPT ![sid].conversation_history =
                                 IF Len(h) > HISTORY_CAP THEN LastN(h, HISTORY_CAP) ELSE h,
                             ![sid].last_activity = now], <<>>)

\* change_mode as it would be with mode_specific_data.update(...): the fields
\* of the old context that the new one does not have are kept
ChangeModeMerges(S, sid, new_mode, config, now) ==
    IF sid \notin DOMAIN S THEN Result(S, <<>>)
    ELSE Result([S EXCEPT ![sid].mode = new_mode,
                          ![sid].mode_specific_data =
                              DictUpdate(@, InitializeModeData(new_mode, config)),
                          ![sid].last_activity = now], <<>>)

ChangeMode(S, sid, new_mode, config, now) ==
    IF sid \notin DOMAIN S THEN Result(S, <<>>)
    ELSE Result([S EXCEPT ![sid].mode = new_mode,
                          ![sid].mode_specific_data = InitializeModeData(new_mode, config),
                          ![sid].last_activity = now], <<>>)

UpdateModeData(S, sid, mode_data) ==
    IF sid \notin DOMAIN S THEN Result(S, <<>>)
    ELSE Result([S EXCEPT ![sid].mode_specific_data = DictUpdate(@, mode_data)], <<>>)

\* delete_session as it would be without its membership test: del raises
\* KeyError for an identifier that is not in the dict
DeleteSessionUnguarded(S, sid) ==
    IF sid \in DOMAIN S
    THEN Result([k \in DOMAIN S \ {sid} |-> S[k]], <<>>)
    ELSE Raise(S)

DeleteSession(S, sid) ==
    IF sid \in DOMAIN S
    THEN Result([k \in DOMAIN S \ {sid} |-> S[k]], <<>>)
    ELSE Result(S, <<>>)

\* the test of cleanup_old_sessions as it would be with >= for >
SessionIdsToDeleteInclusive(S, now, max_age) ==
    {sid \in DOMAIN S : now - S[sid].last_activity >= max_age}

\* the identifiers cleanup_old_sessions collects in session_ids_to_delete
SessionIdsToDelete(S, now, max_age) ==
    {sid \in DOMAIN S : now - S[sid].last_activity > max_age}

CleanupOldSessions(S, now, max_age) ==
    Result([k \in DOMAIN S \ SessionIdsToDelete(S, now, max_age) |-> S[k]], <<>>)


(***************************************************************************)
(* GroqService (services/groq_service.py)                                  *)
(*                                                                         *)
(* A text is a sequence of strings, the pieces an f-string joins.  The     *)
(* completions of the LLM are sequences of single characters, so that      *)
(* "'?' in ai_response" and "ai_response[:50]" are computed on them.       *)
(***************************************************************************)
ARGUMENT_PREFIX == 50

Whitespace == {" "}

RECURSIVE LStrip(_)
LStrip(t) == IF t # <<>> /\ Head(t) \in Whitespace THEN LStrip(Tail(t)) ELSE t

RECURSIVE RStrip(_)
RStrip(t) ==
    IF t # <<>> /\ t[Len(t)] \in Whitespace THEN RStrip(SubSeq(t, 1, Len(t) - 1)) ELSE t

\* str.strip()
Strip(t) == RStrip(LStrip(t))

\* text[:n]
Prefix(t, n) == SubSeq(t, 1, Min(n, Len(t)))

\* '?' in ai_response
HasQuestionMark(t) == \E i \in DOMAIN t : t[i] = "?"

HelloText == <<"Hello! How can I help you today?">>

GreetingFallback(mode, config) ==
    IF mode = "interview" THEN
        <<"Hello! Thanks for joining today. I'm excited to learn more about you. Let's start with: Can you tell me a bit about yourself and your experience?">>
    ELSE IF mode = "debate" THEN
        <<"Great to have this debate with you on ", Get(config, "topic", "AI in society"),
          ". I'm taking the ", Get(config, "stance", "PRO"),
          " stance. Let me start by presenting my opening argument.">>
    ELSE
        <<"Hey there! How's it going?">>

GenerateGreeting(mode, config, llm) ==
    IF ~llm.client THEN HelloText
    ELSE IF llm.ok THEN Strip(IF llm.content = <<>> THEN HelloText ELSE llm.content)
    ELSE GreetingFallback(mode, config)

GenerateModeTransition(new_mode, config) ==
    IF new_mode = "chat" THEN
        <<"Great! Let's just have a casual chat. What's on your mind?">>
    ELSE IF new_mode = "interview" THEN
        <<"Perfect! Let's switch to interview mode. I'll be interviewing you for a ",
          Get(config, "role", "Software Engineer"), " role. Ready to begin?">>
    ELSE IF new_mode = "debate" THEN
        <<"Excellent! Let's debate \"", Get(config, "topic", "an interesting topic"),
          "\". I'll take the ", Get(config, "stance", "PRO"),
          " position. Let's hear your opening statement.">>
    ELSE
        <<"Mode changed successfully!">>

\* (variant: the debate entry is the whole reply, not its first 50 characters)
ProcessModeLogicKeepsWholeReply(mode, mode_data, user_message, ai_response) ==
    IF mode = "interview" /\ HasQuestionMark(ai_response) THEN
        [question_index |->
            Min(Get(mode_data, "question_index", 0) + 1,
                Get(mode_data, "total_questions", DEFAULT_TOTAL_QUESTIONS))]
    ELSE IF mode = "debate" THEN
        [arguments_made |-> Append(Get(mode_data, "arguments_made", <<>>), ai_response)]
    ELSE EmptyDict

\* (variant: the question index is not capped by min)
ProcessModeLogicUncapped(mode, mode_data, user_message, ai_response) ==
    IF mode = "interview" /\ HasQuestionMark(ai_response) THEN
        [question_index |-> Get(mode_data, "question_index", 0) + 1]
    ELSE IF mode = "debate" THEN
        [arguments_made |->
            Append(Get(mode_data, "arguments_made", <<>>), Prefix(ai_response, ARGUMENT_PREFIX))]
    ELSE EmptyDict

ProcessModeLogic(mode, mode_data, user_message, ai_response) ==
    IF mode = "interview" /\ HasQuestionMark(ai_response) THEN
        [question_index |->
            Min(Get(mode_data, "question_index", 0) + 1,
                Get(mode_data, "total_questions", DEFAULT_TOTAL_QUESTIONS))]
    ELSE IF mode = "debate" THEN
        [arguments_made |->
            Append(Get(mode_data, "arguments_made", <<>>), Prefix(ai_response, ARGUMENT_PREFIX))]
    ELSE EmptyDict

\* generate_response: [raised, text, mode_data]
GenerateResponse(user_message, mode, mode_data, llm) ==
    IF ~llm.client \/ ~llm.ok
    THEN [raised |-> TRUE, text |-> <<>>, mode_data |-> EmptyDict]
    ELSE [raised |-> FALSE,
          text |-> Strip(llm.content),
          mode_data |-> ProcessModeLogic(mode, mode_data, user_message, Strip(llm.content))]

\* text_to_speech is a stub that returns metadata computed from the text: it
\* cannot fail and touches no state, so the handlers below carry no audio.


(***************************************************************************)
(* ConnectionManager and the websocket handlers (app.py)                   *)
(***************************************************************************)
Event(type, sid, mode, text, to) ==
    [type |-> type, sessionId |-> sid, mode |-> mode, text |-> text, to |-> to]

\* manager.send_json(client_id, data): the event as sent, with the socket it
\* went to (NoSocket: client_id is not in active_connections, nothing is sent)
Push(out, cid, type, sid, mode, text) ==
    Append(out, Event(type, sid, mode, text, active_connections[cid]))

\* The locals of a handler (pc: where it stands; sid, mode, config, text: its
\* session_id, mode, config and text variables; got: session is not None),
\* and what is recorded of the event it handles: handler, req (the sessionId
\* of the event), created (create_session was called), failed
\* (generate_response raised), reply (the completion), pre (the session as it
\* was in the store when the event arrived), post (the session as it was in
\* the store after the handler's last store call), seen (the value of the
\* session when get_session returned it), used (the value of the session when
\* the handler read it for generate_response), ev (the number of the event), at
\* (the time of the handler's first add_message), out (the events sent so far).
IdleLocals(cid) ==
    [pc |-> "idle", handler |-> "none", cid |-> cid, req |-> NoSid, sid |-> NoSid,
     mode |-> NoMode, config |-> EmptyDict, text |-> <<>>, reply |-> <<>>,
     got |-> FALSE, created |-> FALSE, failed |-> FALSE,
     pre |-> <<>>, post |-> <<>>, seen |-> <<>>, used |-> <<>>,
     ev |-> 0, at |-> 0, out |-> <<>>]

ClosedWorker == [IdleLocals("a") EXCEPT !.pc = "closed"]

\* the session of a store as an Optional
SnapshotOf(S, sid) == IF sid \in DOMAIN S THEN <<S[sid]>> ELSE <<>>
Snapshot(sid) == SnapshotOf(sessions, sid)

\* lastOp: the call, its arguments, the store before it and its result
Op(op, sid, mode, config, role, text, patch, max_age, result) ==
    [op |-> op, sid |-> sid, mode |-> mode, config |-> config, role |-> role,
     text |-> text, patch |-> patch, max_age |-> max_age, now |-> clock,
     pre |-> sessions, ret |-> result.ret, raised |-> result.raised]

NoOp ==
    [op |-> "none", sid |-> NoSid, mode |-> NoMode, config |-> EmptyDict, role |-> "",
     text |-> <<>>, patch |-> EmptyDict, max_age |-> 0, now |-> 0,
     pre |-> EmptyDict, ret |-> <<>>, raised |-> FALSE]

\* the state after the module is loaded, with b events to come
InitWith(b) ==
    /\ sessions = EmptyDict
    /\ nextId = 0
    /\ clock = 0
    /\ ticks = 0
    /\ events = 0
    /\ budget = b
    /\ lock = "free"
    /\ reaper = [pc |-> "sleep", since |-> 0, now |-> 0, seen |-> EmptyDict]
    /\ active_connections = [c \in ClientIds |-> NoSocket]
    /\ connection_sessions = [c \in ClientIds |-> NoSid]
    /\ worker = [w \in Sockets |-> ClosedWorker]
    /\ loop = "free"
    /\ rest = [pc |-> "idle", op |-> "none", sid |-> NoSid, mode |-> NoMode,
               config |-> EmptyDict, status |-> 0]
    /\ lastOp = NoOp
    /\ appended = EmptyDict

Init == InitWith(MaxEvents)

storeOnly == <<lastOp, appended, budget>>
appOnly == <<lock, reaper, active_connections, connection_sessions, worker, loop, rest, budget>>

\* websocket_endpoint: manager.connect
Connect(w, cid) ==
    /\ worker[w].pc = "closed"
    /\ loop = "free"
    /\ active_connections' = [active_connections EXCEPT ![cid] = w]
    /\ worker' = [worker EXCEPT ![w] = IdleLocals(cid)]
    /\ UNCHANGED <<sessions, nextId, clock, ticks, events, lock, reaper, connection_sessions,
                   loop, rest, storeOnly>>

\* ConnectionManager.disconnect on the two mappings: each del is guarded by a
\* membership test.  (The variant has no tests: del raises KeyError.)
ManagerDisconnectedUnguarded(active, bound, cid) ==
    IF active[cid] = NoSocket THEN
        [active_connections |-> active, connection_sessions |-> bound, raised |-> TRUE]
    ELSE IF bound[cid] = NoSid THEN
        [active_connections |-> [active EXCEPT ![cid] = NoSocket],
         connection_sessions |-> bound, raised |-> TRUE]
    ELSE
        [active_connections |-> [active EXCEPT ![cid] = NoSocket],
         connection_sessions |-> [bound EXCEPT ![cid] = NoSid], raised |-> FALSE]

ManagerDisconnected(active, bound, cid) ==
    [active_connections |-> IF active[cid] # NoSocket
                            THEN [active EXCEPT ![cid] = NoSocket] ELSE active,
     connection_sessions |-> IF bound[cid] # NoSid
                             THEN [bound EXCEPT ![cid] = NoSid] ELSE bound,
     raised |-> FALSE]

\* ConnectionManager.send_json: the socket the data is sent to (NoSocket:
\* the id is not in active_connections and nothing is sent)
ManagerSent(active, cid) ==
    [to |-> IF active[cid] # NoSocket THEN active[cid] ELSE NoSocket, raised |-> FALSE]

ManagerDisconnect(cid) ==
    LET result == ManagerDisconnected(active_connections, connection_sessions, cid)
    IN  /\ active_connections' = result.active_connections
        /\ connection_sessions' = result.connection_sessions

\* websocket_endpoint: receive_json raises WebSocketDisconnect
Disconnect(w) ==
    /\ worker[w].pc = "idle"
    /\ loop = "free"
    /\ ManagerDisconnect(worker[w].cid)
    /\ worker' = [worker EXCEPT ![w] = ClosedWorker]
    /\ UNCHANGED <<sessions, nextId, clock, ticks, events, lock, reaper, loop, rest, storeOnly>>


\* the session identifiers a client can name: those handed out, and one never seen
KnownSids == (1..nextId) \cup {UnknownSid}

\* A handler runs from the receipt of its event to its return.  Between two
\* awaits it holds the event loop (loop = w); it gives the loop up where it
\* awaits a send and has more to do afterwards.  After its last send it
\* returns (WorkerReturn) without another coroutine running in between.

(***************************************************************************)
(* handle_init_session                                                     *)
(***************************************************************************)
\* up to the call of generate_greeting: get_session / create_session, and the
\* session mapping of the connection
InitBegin(w, sessionId, mode, config) ==
    LET reuse == sessionId # NoSid /\ GetSession(sessions, sessionId).ret # <<>>
        sid == IF reuse THEN sessionId ELSE nextId + 1
    IN  /\ worker[w].pc = "idle"
        /\ events < budget
        /\ events' = events + 1
        /\ loop = "free"
        /\ lock = "free"
        /\ reuse \/ nextId < MaxSessions
        /\ sessions' = IF reuse THEN sessions
                       ELSE CreateSession(sessions, sid, mode, config, clock).store
        /\ nextId' = IF reuse THEN nextId ELSE nextId + 1
        /\ connection_sessions' = [connection_sessions EXCEPT ![worker[w].cid] = sid]
        /\ worker' = [worker EXCEPT ![w].pc = "init_greeting", ![w].handler = "init",
                                    ![w].req = sessionId, ![w].sid = sid,
                                    ![w].mode = mode, ![w].config = config,
                                    ![w].created = ~reuse,
                                    ![w].pre = Snapshot(sessionId),
                                    ![w].ev = events + 1]
        /\ loop' = w
        /\ UNCHANGED <<clock, ticks, lock, reaper, active_connections, rest, storeOnly>>

\* handle_init_session as it would be without its add_message
InitGreetingForgetsHistory(w, llm) ==
    LET me == worker[w]
        greeting == GenerateGreeting(me.mode, me.config, llm)
    IN  /\ me.pc = "init_greeting"
        /\ lock = "free"
        /\ UNCHANGED sessions
        /\ worker' = [worker EXCEPT
                        ![w].pc = "init_ready_sent",
                        ![w].text = greeting, ![w].at = clock,
                        ![w].post = SnapshotOf(sessions', me.sid),
                        ![w].out = Push(me.out, me.cid, "session-ready", me.sid, me.mode, greeting)]
        /\ loop' = "free"
        /\ UNCHANGED <<nextId, clock, ticks, events, lock, reaper, active_connections,
                       connection_sessions, rest, storeOnly>>

\* generate_greeting returns; add_message; the session-ready event is sent
InitGreeting(w, llm) ==
    LET me == worker[w]
        greeting == GenerateGreeting(me.mode, me.config, llm)
    IN  /\ me.pc = "init_greeting"
        /\ lock = "free"
        /\ sessions' = AddMessage(sessions, me.sid, "ai", greeting, clock).store
        /\ worker' = [worker EXCEPT
                        ![w].pc = "init_ready_sent",
                        ![w].text = greeting, ![w].at = clock,
                        ![w].post = SnapshotOf(sessions', me.sid),
                        ![w].out = Push(me.out, me.cid, "session-ready", me.sid, me.mode, greeting)]
        /\ loop' = "free"
        /\ UNCHANGED <<nextId, clock, ticks, events, lock, reaper, active_connections,
                       connection_sessions, rest, storeOnly>>

\* the ai-response event is sent
InitRespond(w) ==
    LET me == worker[w]
    IN  /\ me.pc = "init_ready_sent"
        /\ loop = "free"
        /\ worker' = [worker EXCEPT
                        ![w].pc = "done",
                        ![w].out = Push(me.out, me.cid, "ai-response", NoSid, NoMode, me.text)]
        /\ loop' = w
        /\ UNCHANGED <<sessions, nextId, clock, ticks, events, lock, reaper,
                       active_connections, connection_sessions, rest, storeOnly>>

(***************************************************************************)
(* handle_change_mode                                                      *)
(***************************************************************************)
ModeBegin(w, mode, config) ==
    LET me == worker[w]
        sid == connection_sessions[me.cid]
        transition == GenerateModeTransition(mode, config)
        changed == ChangeMode(sessions, sid, mode, config, clock).store
    IN  /\ me.pc = "idle"
        /\ events < budget
        /\ events' = events + 1
        /\ loop = "free"
        /\ lock = "free"
        /\ IF sid = NoSid
           THEN /\ worker' = [worker EXCEPT
                                ![w].pc = "done", ![w].handler = "mode",
                                ![w].ev = events + 1,
                                ![w].out = Push(<<>>, me.cid, "error", NoSid, NoMode,
                                                <<"No active session">>)]
                /\ loop' = w
                /\ UNCHANGED sessions
           ELSE /\ sessions' = AddMessage(changed, sid, "ai", transition, clock).store
                /\ worker' = [worker EXCEPT
                                ![w].pc = "mode_changed_sent", ![w].handler = "mode",
                                ![w].sid = sid, ![w].mode = mode, ![w].config = config,
                                ![w].text = transition, ![w].pre = Snapshot(sid),
                                ![w].post = SnapshotOf(sessions', sid),
                                ![w].ev = events + 1, ![w].at = clock,
                                ![w].out = Push(<<>>, me.cid, "mode-changed", NoSid, mode,
                                                transition)]
                /\ UNCHANGED loop
        /\ UNCHANGED <<nextId, clock, ticks, lock, reaper, active_connections,
                       connection_sessions, rest, storeOnly>>

ModeRespond(w) ==
    LET me == worker[w]
    IN  /\ me.pc = "mode_changed_sent"
        /\ loop = "free"
        /\ worker' = [worker EXCEPT
                        ![w].pc = "done",
                        ![w].out = Push(me.out, me.cid, "ai-response", NoSid, NoMode, me.text)]
        /\ loop' = w
        /\ UNCHANGED <<sessions, nextId, clock, ticks, events, lock, reaper,
                       active_connections, connection_sessions, rest, storeOnly>>

(***************************************************************************)
(* handle_text_message                                                     *)
(***************************************************************************)
ErrorText == <<"Error processing your message">>

\* handle_text_message as it would be without its "if not text: return"
TextBeginAcceptsEmpty(w, raw) ==
    LET me == worker[w]
        sid == connection_sessions[me.cid]
        text == Strip(raw)
        added == AddMessage(sessions, sid, "user", text, clock).store
    IN  /\ me.pc = "idle"
        /\ events < budget
        /\ events' = events + 1
        /\ loop = "free"
        /\ lock = "free"
        /\ IF sid = NoSid
           THEN /\ worker' = [worker EXCEPT ![w].pc = "done", ![w].handler = "text",
                                             ![w].sid = sid, ![w].text = text,
                                             ![w].pre = Snapshot(sid),
                                             ![w].ev = events + 1]
                /\ loop' = w
                /\ UNCHANGED sessions
           ELSE /\ sessions' = added
                /\ worker' = [worker EXCEPT
                                ![w].pc = "text_thinking", ![w].handler = "text",
                                ![w].sid = sid, ![w].text = text,
                                ![w].ev = events + 1, ![w].at = clock,
                                ![w].got = (GetSession(added, sid).ret # <<>>),
                                ![w].seen = GetSession(added, sid).ret,
                                ![w].pre = Snapshot(sid),
                                ![w].out = Push(<<>>, me.cid, "ai-thinking", NoSid, NoMode, <<>>)]
                /\ UNCHANGED loop
        /\ UNCHANGED <<nextId, clock, ticks, lock, reaper, active_connections,
                       connection_sessions, rest, storeOnly>>

\* up to the first await: the user turn is added, the session is fetched and
\* the ai-thinking event is sent
TextBegin(w, raw) ==
    LET me == worker[w]
        sid == connection_sessions[me.cid]
        text == Strip(raw)
        added == AddMessage(sessions, sid, "user", text, clock).store
    IN  /\ me.pc = "idle"
        /\ events < budget
        /\ events' = events + 1
        /\ loop = "free"
        /\ lock = "free"
        /\ IF sid = NoSid \/ text = <<>>
           THEN /\ worker' = [worker EXCEPT ![w].pc = "done", ![w].handler = "text",
                                             ![w].sid = sid, ![w].text = text,
                                             ![w].pre = Snapshot(sid),
                                             ![w].ev = events + 1]
                /\ loop' = w
                /\ UNCHANGED sessions
           ELSE /\ sessions' = added
                /\ worker' = [worker EXCEPT
                                ![w].pc = "text_thinking", ![w].handler = "text",
                                ![w].sid = sid, ![w].text = text,
                                ![w].ev = events + 1, ![w].at = clock,
                                ![w].got = (GetSession(added, sid).ret # <<>>),
                                ![w].seen = GetSession(added, sid).ret,
                                ![w].pre = Snapshot(sid),
                                ![w].out = Push(<<>>, me.cid, "ai-thinking", NoSid, NoMode, <<>>)]
                /\ UNCHANGED loop
        /\ UNCHANGED <<nextId, clock, ticks, lock, reaper, active_connections,
                       connection_sessions, rest, storeOnly>>

\* generate_response is called; subscripting session raises TypeError when
\* get_session returned None, and the handler sends error
TextCall(w) ==
    LET me == worker[w]
    IN  /\ me.pc = "text_thinking"
        /\ loop = "free"
        /\ IF ~me.got
           THEN worker' = [worker EXCEPT
                             ![w].pc = "done",
                             ![w].out = Push(me.out, me.cid, "error", NoSid, NoMode, ErrorText)]
           ELSE worker' = [worker EXCEPT ![w].pc = "text_llm",
                                        ![w].used = Snapshot(me.sid)]
        /\ loop' = w
        /\ UNCHANGED <<sessions, nextId, clock, ticks, events, lock, reaper,
                       active_connections, connection_sessions, rest, storeOnly>>

\* handle_text_message as it would be if its except branch stored the error
\* message as the AI turn
TextLLMFailAnswers(w, llm) ==
    LET me == worker[w]
    IN  /\ me.pc = "text_llm"
        /\ GenerateResponse(me.text, NoMode, EmptyDict, llm).raised
        /\ worker' = [worker EXCEPT
                        ![w].pc = "done",
                        ![w].failed = TRUE,
                        ![w].post = SnapshotOf(AddMessage(sessions, me.sid, "ai", ErrorText, clock).store, me.sid),
                        ![w].out = Push(me.out, me.cid, "error", NoSid, NoMode, ErrorText)]
        /\ sessions' = AddMessage(sessions, me.sid, "ai", ErrorText, clock).store
        /\ UNCHANGED <<nextId, clock, ticks, events, lock, reaper,
                       active_connections, connection_sessions, loop, rest, storeOnly>>

\* handle_text_message as it would be if its except branch put the session
\* back as it was when the event arrived
TextLLMFailRollsBack(w, llm) ==
    LET me == worker[w]
    IN  /\ me.pc = "text_llm"
        /\ GenerateResponse(me.text, NoMode, EmptyDict, llm).raised
        /\ worker' = [worker EXCEPT
                        ![w].pc = "done",
                        ![w].failed = TRUE,
                        ![w].post = IF me.sid \in DOMAIN sessions THEN me.pre ELSE <<>>,
                        ![w].out = Push(me.out, me.cid, "error", NoSid, NoMode, ErrorText)]
        /\ sessions' = IF me.sid \in DOMAIN sessions
                       THEN [sessions EXCEPT ![me.sid] = me.pre[1]]
                       ELSE sessions
        /\ UNCHANGED <<nextId, clock, ticks, events, lock, reaper,
                       active_connections, connection_sessions, loop, rest, storeOnly>>

\* generate_response raises (no client, or the completion failed): the
\* handler sends error
TextLLMFail(w, llm) ==
    LET me == worker[w]
    IN  /\ me.pc = "text_llm"
        /\ GenerateResponse(me.text, NoMode, EmptyDict, llm).raised
        /\ worker' = [worker EXCEPT
                        ![w].pc = "done",
                        ![w].failed = TRUE,
                        ![w].post = Snapshot(me.sid),
                        ![w].out = Push(me.out, me.cid, "error", NoSid, NoMode, ErrorText)]
        /\ UNCHANGED <<sessions, nextId, clock, ticks, events, lock, reaper,
                       active_connections, connection_sessions, loop, rest, storeOnly>>

\* (variant of the step below: mode and mode data are taken from the value
\* the session had when get_session returned, as if that were a copy)
\* The completion arrives: update_mode_data, add_message, ai-response.  The
\* handler reads mode and mode data through its reference to the session
\* dict; when the cleanup thread has removed the session meanwhile, the dict
\* is no longer in the store and both store calls do nothing.
TextLLMOkReadsSnapshot(w, llm) ==
    LET me == worker[w]
        resp == GenerateResponse(me.text, me.seen[1].mode, me.seen[1].mode_specific_data, llm)
        updated == IF resp.mode_data # EmptyDict
                   THEN UpdateModeData(sessions, me.sid, resp.mode_data).store
                   ELSE sessions
    IN  /\ me.pc = "text_llm"
        /\ lock = "free"
        /\ ~resp.raised
        /\ sessions' = AddMessage(updated, me.sid, "ai", resp.text, clock).store
        /\ worker' = [worker EXCEPT
                        ![w].pc = "done",
                        ![w].reply = resp.text,
                        ![w].post = SnapshotOf(sessions', me.sid),
                        ![w].out = Push(me.out, me.cid, "ai-response", NoSid, NoMode, resp.text)]
        /\ UNCHANGED <<nextId, clock, ticks, events, lock, reaper, active_connections,
                       connection_sessions, loop, rest, storeOnly>>

TextLLMOk(w, llm) ==
    LET me == worker[w]
        live == me.sid \in DOMAIN sessions
        resp == GenerateResponse(me.text,
                                 IF live THEN sessions[me.sid].mode ELSE NoMode,
                                 IF live THEN sessions[me.sid].mode_specific_data ELSE EmptyDict,
                                 llm)
        updated == IF resp.mode_data # EmptyDict
                   THEN UpdateModeData(sessions, me.sid, resp.mode_data).store
                   ELSE sessions
    IN  /\ me.pc = "text_llm"
        /\ lock = "free"
        /\ ~resp.raised
        /\ sessions' = AddMessage(updated, me.sid, "ai", resp.text, clock).store
        /\ worker' = [worker EXCEPT
                        ![w].pc = "done",
                        ![w].reply = resp.text,
                        ![w].post = SnapshotOf(sessions', me.sid),
                        ![w].out = Push(me.out, me.cid, "ai-response", NoSid, NoMode, resp.text)]
        /\ UNCHANGED <<nextId, clock, ticks, events, lock, reaper, active_connections,
                       connection_sessions, loop, rest, storeOnly>>

\* handle_stop_ai
StopAi(w) ==
    LET me == worker[w]
    IN  /\ me.pc = "idle"
        /\ events < budget
        /\ events' = events + 1
        /\ loop = "free"
        /\ worker' = [worker EXCEPT
                        ![w].pc = "done", ![w].handler = "stop",
                        ![w].ev = events + 1,
                        ![w].out = Push(<<>>, me.cid, "ai-stopped", NoSid, NoMode, <<>>)]
        /\ loop' = w
        /\ UNCHANGED <<sessions, nextId, clock, ticks, lock, reaper, active_connections,
                       connection_sessions, rest, storeOnly>>

\* the handler returns: websocket_endpoint awaits receive_json again
WorkerReturn(w) ==
    /\ worker[w].pc = "done"
    /\ worker' = [worker EXCEPT ![w] = IdleLocals(worker[w].cid)]
    /\ loop' = "free"
    /\ UNCHANGED <<sessions, nextId, clock, ticks, events, lock, reaper,
                   active_connections, connection_sessions, rest, storeOnly>>

(***************************************************************************)
(* REST endpoints.  An endpoint holds the event loop from the parsed       *)
(* request to its response (RestReturn).  rest holds the locals of the     *)
(* endpoint and its response: status, sid, mode and history; post is the   *)
(* session as it was in the store after the endpoint's last store call.    *)
(***************************************************************************)
RestIdle ==
    [pc |-> "idle", op |-> "none", sid |-> NoSid, mode |-> NoMode, config |-> EmptyDict,
     status |-> 0, history |-> <<>>, post |-> <<>>]

Responded(op, sid, mode, status) ==
    [pc |-> "responded", op |-> op, sid |-> sid, mode |-> mode, config |-> EmptyDict,
     status |-> status, history |-> <<>>, post |-> <<>>]

\* start_session
RestStart(mode, config) ==
    /\ rest.pc = "idle"
    /\ events < budget
    /\ events' = events + 1
    /\ loop = "free"
    /\ lock = "free"
    /\ nextId < MaxSessions
    /\ sessions' = CreateSession(sessions, nextId + 1, mode, config, clock).store
    /\ nextId' = nextId + 1
    /\ rest' = [Responded("start", nextId + 1, mode, 200) EXCEPT
                    !.post = SnapshotOf(sessions', nextId + 1)]
    /\ loop' = "rest"
    /\ UNCHANGED <<clock, ticks, lock, reaper, active_connections, connection_sessions,
                   worker, storeOnly>>

\* change_session_mode, up to get_session
RestChangeModeBegin(sid, mode, config) ==
    /\ rest.pc = "idle"
    /\ events < budget
    /\ events' = events + 1
    /\ loop = "free"
    /\ lock = "free"
    /\ rest' = IF GetSession(sessions, sid).ret = <<>>
               THEN Responded("change_mode", sid, mode, 404)
               ELSE [pc |-> "change_mode", op |-> "change_mode", sid |-> sid,
                     mode |-> mode, config |-> config, status |-> 0,
                     history |-> <<>>, post |-> <<>>]
    /\ loop' = "rest"
    /\ UNCHANGED <<sessions, nextId, clock, ticks, lock, reaper, active_connections,
                   connection_sessions, worker, storeOnly>>

\* (variant: the response without the call of change_mode)
RestChangeModeEndSkipsChange ==
    /\ rest.pc = "change_mode"
    /\ lock = "free"
    /\ rest' = [Responded("change_mode", rest.sid, rest.mode, 200) EXCEPT
                    !.post = Snapshot(rest.sid)]
    /\ UNCHANGED <<sessions, nextId, clock, ticks, events, lock, reaper, active_connections,
                   connection_sessions, worker, loop, storeOnly>>

\* change_session_mode: change_mode and the response
RestChangeModeEnd ==
    /\ rest.pc = "change_mode"
    /\ lock = "free"
    /\ sessions' = ChangeMode(sessions, rest.sid, rest.mode, rest.config, clock).store
    /\ rest' = [Responded("change_mode", rest.sid, rest.mode, 200) EXCEPT
                    !.post = SnapshotOf(sessions', rest.sid)]
    /\ UNCHANGED <<nextId, clock, ticks, events, lock, reaper, active_connections,
                   connection_sessions, worker, loop, storeOnly>>

\* get_session_history
RestHistory(sid) ==
    /\ rest.pc = "idle"
    /\ events < budget
    /\ events' = events + 1
    /\ loop = "free"
    /\ lock = "free"
    /\ rest' = LET session == GetSession(sessions, sid).ret
               IN  IF session = <<>>
                   THEN Responded("history", sid, NoMode, 404)
                   ELSE [Responded("history", sid, session[1].mode, 200) EXCEPT
                            !.history = session[1].conversation_history,
                            !.post = session]
    /\ loop' = "rest"
    /\ UNCHANGED <<sessions, nextId, clock, ticks, lock, reaper, active_connections,
                   connection_sessions, worker, storeOnly>>

\* the response is written
RestReturn ==
    /\ rest.pc = "responded"
    /\ rest' = RestIdle
    /\ loop' = "free"
    /\ UNCHANGED <<sessions, nextId, clock, ticks, events, lock, reaper,
                   active_connections, connection_sessions, worker, storeOnly>>

(***************************************************************************)
(* The clock and the cleanup thread                                        *)
(***************************************************************************)
TickSteps == {DEFAULT_MAX_AGE + 1}

Tick(d) ==
    /\ ticks < MaxTicks
    /\ clock' = clock + d
    /\ ticks' = ticks + 1
    /\ UNCHANGED <<sessions, nextId, events, lock, reaper, active_connections,
                   connection_sessions, worker, loop, rest, storeOnly>>

\* cleanup_old_sessions as it would be without "with self.lock"
ReaperAcquireWithoutLock ==
    /\ reaper.pc = "sleep"
    /\ clock >= reaper.since + CLEANUP_INTERVAL
    /\ UNCHANGED lock
    /\ reaper' = [reaper EXCEPT !.pc = "locked", !.now = clock, !.seen = sessions]
    /\ UNCHANGED <<sessions, nextId, clock, ticks, events, active_connections,
                   connection_sessions, worker, loop, rest, storeOnly>>

\* _cleanup_loop: sleep(600) is over; cleanup_old_sessions reads now and
\* takes the lock (seen: the store as it is when the lock is taken)
ReaperAcquire ==
    /\ reaper.pc = "sleep"
    /\ clock >= reaper.since + CLEANUP_INTERVAL
    /\ lock = "free"
    /\ lock' = "reaper"
    /\ reaper' = [reaper EXCEPT !.pc = "locked", !.now = clock, !.seen = sessions]
    /\ UNCHANGED <<sessions, nextId, clock, ticks, events, active_connections,
                   connection_sessions, worker, loop, rest, storeOnly>>

\* (variant: _cleanup_loop without its "while True": one pass, and the
\* thread ends)
ReaperCleanOnce ==
    /\ reaper.pc = "locked"
    /\ sessions' = CleanupOldSessions(sessions, reaper.now, DEFAULT_MAX_AGE).store
    /\ lock' = "free"
    /\ reaper' = [pc |-> "ended", since |-> clock, now |-> 0, seen |-> EmptyDict]
    /\ UNCHANGED <<nextId, clock, ticks, events, active_connections, connection_sessions,
                   worker, loop, rest, storeOnly>>

\* cleanup_old_sessions deletes under the lock, releases it and sleeps again
ReaperClean ==
    /\ reaper.pc = "locked"
    /\ sessions' = CleanupOldSessions(sessions, reaper.now, DEFAULT_MAX_AGE).store
    /\ lock' = "free"
    /\ reaper' = [pc |-> "sleep", since |-> clock, now |-> 0, seen |-> EmptyDict]
    /\ UNCHANGED <<nextId, clock, ticks, events, active_connections, connection_sessions,
                   worker, loop, rest, storeOnly>>

\* the events of the websocket connections W
Websocket(W) ==
    \/ \E w \in W : \E c \in ClientIdsOf(w) : Connect(w, c)
    \/ \E w \in W : Disconnect(w)
    \/ \E w \in W, sid \in KnownSids \cup {NoSid}, mc \in ModeConfigs :
          InitBegin(w, sid, mc[1], mc[2])
    \/ \E w \in W, llm \in LLMGreetingOutcomes : InitGreeting(w, llm)
    \/ \E w \in W : InitRespond(w)
    \/ \E w \in W, mc \in ModeConfigs : ModeBegin(w, mc[1], mc[2])
    \/ \E w \in W : ModeRespond(w)
    \/ \E w \in W, raw \in UserTexts : TextBegin(w, raw)
    \/ \E w \in W : TextCall(w)
    \/ \E w \in W, llm \in LLMOutcomes : TextLLMFail(w, llm)
    \/ \E w \in W, llm \in LLMOutcomes : TextLLMOk(w, llm)
    \/ \E w \in W : StopAi(w)
    \/ \E w \in W : WorkerReturn(w)

Rest ==
    \/ \E mc \in ModeConfigs : RestStart(mc[1], mc[2])
    \/ \E sid \in KnownSids, mc \in ModeConfigs : RestChangeModeBegin(sid, mc[1], mc[2])
    \/ RestChangeModeEnd
    \/ \E sid \in KnownSids : RestHistory(sid)
    \/ RestReturn

Time ==
    \/ \E d \in TickSteps : Tick(d)
    \/ ReaperAcquire
    \/ ReaperClean

\* One websocket connection, the REST endpoints, the clock and the cleanup
\* thread.
Next == Websocket({"w1"}) \/ Rest \/ Time

Spec == Init /\ [][Next]_vars


(***************************************************************************)
(* SpecStore: the methods of SessionManager called directly, in any order  *)
(* and with any arguments, on a clock that advances by seconds.            *)
(***************************************************************************)
StoreSids == 0..MaxStoreSessions     \* 0 is never returned by create_session
StoreModeConfigs == ModeInputs \X Configs
StorePatches == { [question_index |-> 1], [arguments_made |-> << <<"o", "k">> >>] }
StoreMaxAges == {0, 1}

\* a call of a store method: the store becomes result.store
StoreCall(op, sid, mode, config, role, text, patch, max_age, result) ==
    /\ sessions' = result.store
    /\ lastOp' = Op(op, sid, mode, config, role, text, patch, max_age, result)

\* the calls are counted
Counted ==
    /\ events < MaxStoreOps
    /\ events' = events + 1

StoreCreate(mode, config) ==
    /\ Counted
    /\ nextId < MaxStoreSessions
    /\ nextId' = nextId + 1
    /\ StoreCall("create_session", nextId + 1, mode, config, "", <<>>, EmptyDict, 0,
                 CreateSession(sessions, nextId + 1, mode, config, clock))
    /\ UNCHANGED <<clock, ticks, appended, appOnly>>

StoreGet(sid) ==
    /\ Counted
    /\ StoreCall("get_session", sid, NoMode, EmptyDict, "", <<>>, EmptyDict, 0,
                 GetSession(sessions, sid))
    /\ UNCHANGED <<nextId, clock, ticks, appended, appOnly>>

StoreAdd(sid, role, text) ==
    /\ Counted
    /\ StoreCall("add_message", sid, NoMode, EmptyDict, role, text, EmptyDict, 0,
                 AddMessage(sessions, sid, role, text, clock))
    /\ UNCHANGED <<nextId, clock, ticks, appended, appOnly>>

StoreChangeMode(sid, mode, config) ==
    /\ Counted
    /\ StoreCall("change_mode", sid, mode, config, "", <<>>, EmptyDict, 0,
                 ChangeMode(sessions, sid, mode, config, clock))
    /\ UNCHANGED <<nextId, clock, ticks, appended, appOnly>>

StoreUpdate(sid, patch) ==
    /\ Counted
    /\ StoreCall("update_mode_data", sid, NoMode, EmptyDict, "", <<>>, patch, 0,
                 UpdateModeData(sessions, sid, patch))
    /\ UNCHANGED <<nextId, clock, ticks, appended, appOnly>>

StoreDelete(sid) ==
    /\ Counted
    /\ StoreCall("delete_session", sid, NoMode, EmptyDict, "", <<>>, EmptyDict, 0,
                 DeleteSession(sessions, sid))
    /\ UNCHANGED <<nextId, clock, ticks, appended, appOnly>>

StoreCleanup(max_age) ==
    /\ Counted
    /\ StoreCall("cleanup_old_sessions", NoSid, NoMode, EmptyDict, "", <<>>, EmptyDict,
                 max_age, CleanupOldSessions(sessions, clock, max_age))
    /\ UNCHANGED <<nextId, clock, ticks, appended, appOnly>>

StoreTick ==
    /\ ticks < MaxStoreTicks
    /\ clock' = clock + 1
    /\ ticks' = ticks + 1
    /\ UNCHANGED <<sessions, nextId, events, storeOnly, appOnly>>

NextStore ==
    \/ \E mc \in ModeConfigs : StoreCreate(mc[1], mc[2])
    \/ \E sid \in StoreSids : StoreGet(sid)
    \/ \E sid \in StoreSids, role \in {"user", "ai"} : StoreAdd(sid, role, <<"hi">>)
    \/ \E sid \in StoreSids, mc \in StoreModeConfigs : StoreChangeMode(sid, mc[1], mc[2])
    \/ \E sid \in StoreSids, patch \in StorePatches : StoreUpdate(sid, patch)
    \/ \E sid \in StoreSids : StoreDelete(sid)
    \/ \E max_age \in StoreMaxAges : StoreCleanup(max_age)
    \/ StoreTick

SpecStore == Init /\ [][NextStore]_vars


(***************************************************************************)
(* SpecCap: sessions are created and turns are added to them, up to        *)
(* MaxOverCap turns beyond the cap.  The k-th turn added to a session      *)
(* carries the text k, and `appended` keeps every turn ever added.         *)
(***************************************************************************)
CapTurn(k) == Turn(IF k % 2 = 1 THEN "user" ELSE "ai", <<ToString(k)>>, clock)

CapCreate ==
    /\ nextId < MaxStoreSessions
    /\ nextId' = nextId + 1
    /\ StoreCall("create_session", nextId + 1, "chat", EmptyDict, "", <<>>, EmptyDict, 0,
                 CreateSession(sessions, nextId + 1, "chat", EmptyDict, clock))
    /\ appended' = [k \in DOMAIN appended \cup {nextId + 1} |->
                       IF k = nextId + 1 THEN <<>> ELSE appended[k]]
    /\ UNCHANGED <<clock, ticks, events, appOnly>>

CapAdd(sid) ==
    LET turn == CapTurn(Len(appended[sid]) + 1)
    IN  /\ Len(appended[sid]) < HISTORY_CAP + MaxOverCap
        /\ StoreCall("add_message", sid, NoMode, EmptyDict, turn.role, turn.text, EmptyDict, 0,
                     AddMessage(sessions, sid, turn.role, turn.text, clock))
        /\ appended' = [appended EXCEPT ![sid] = Append(@, turn)]
        /\ UNCHANGED <<nextId, clock, ticks, events, appOnly>>

NextCap ==
    \/ CapCreate
    \/ \E sid \in DOMAIN sessions : CapAdd(sid)

SpecCap == Init /\ [][NextCap]_vars


(***************************************************************************)
(* SpecInterview: one connection opens an interview session and sends text *)
(* messages that the LLM answers, with or without a question.              *)
(***************************************************************************)
InterviewConfigs == {EmptyDict, FullConfig}
LLMAnswers == {llm \in LLMOutcomes : llm.client /\ llm.ok}

NextInterview ==
    \/ Connect("w1", "a")
    \/ \E config \in InterviewConfigs : InitBegin("w1", NoSid, "interview", config)
    \/ \E llm \in LLMGreetingOutcomes : InitGreeting("w1", llm)
    \/ InitRespond("w1")
    \/ TextBegin("w1", <<"hi">>)
    \/ TextCall("w1")
    \/ \E llm \in LLMAnswers : TextLLMOk("w1", llm)
    \/ WorkerReturn("w1")

SpecInterview == InitWith(MaxTurns + 1) /\ [][NextInterview]_vars


(***************************************************************************)
(* SpecShared: two connections with different client ids, which may bind   *)
(* to the same interview session, change its mode and send text messages   *)
(* that the LLM answers.                                                   *)
(***************************************************************************)
SharedSockets == { <<"w1", "a">>, <<"w2", "b">> }
LLMGreets == {llm \in LLMGreetingOutcomes : llm.client /\ llm.ok}
HandedOut == 1..nextId

NextShared ==
    \/ \E wc \in SharedSockets : Connect(wc[1], wc[2])
    \/ \E wc \in SharedSockets, sid \in HandedOut \cup {NoSid}, config \in InterviewConfigs :
          InitBegin(wc[1], sid, "interview", config)
    \/ \E wc \in SharedSockets, llm \in LLMGreets : InitGreeting(wc[1], llm)
    \/ \E wc \in SharedSockets : InitRespond(wc[1])
    \/ \E wc \in SharedSockets, config \in InterviewConfigs : ModeBegin(wc[1], "interview", config)
    \/ \E wc \in SharedSockets : ModeRespond(wc[1])
    \/ \E wc \in SharedSockets : TextBegin(wc[1], <<"hi">>)
    \/ \E wc \in SharedSockets : TextCall(wc[1])
    \/ \E wc \in SharedSockets, llm \in LLMAnswers : TextLLMOk(wc[1], llm)
    \/ \E wc \in SharedSockets : WorkerReturn(wc[1])

SpecShared == InitWith(MaxSharedEvents) /\ [][NextShared]_vars


(***************************************************************************)
(* SpecManager: the methods of ConnectionManager called directly, in any   *)
(* order and for any connection id, and the session mapping written as     *)
(* handle_init_session writes it.  lastOp records the last call: the       *)
(* mappings before it (active, bound), its outcome (raised, to), the ids   *)
(* whose last connect or disconnect was a disconnect (closed) and the      *)
(* kinds of state in which disconnect and send_json were called so far     *)
(* (cases).                                                                *)
(***************************************************************************)
ManagerSids == {1}
ManagerClosed == IF lastOp.op = "none" THEN {} ELSE lastOp.closed
ManagerCases == IF lastOp.op = "none" THEN {} ELSE lastOp.cases

ManagerOp(op, cid, raised, to, closed, cases) ==
    [op |-> op, cid |-> cid, active |-> active_connections, bound |-> connection_sessions,
     raised |-> raised, to |-> to, closed |-> closed, cases |-> cases]

ManagerConnect(w, cid) ==
    /\ events < budget
    /\ events' = events + 1
    /\ active_connections' = [active_connections EXCEPT ![cid] = w]
    /\ lastOp' = ManagerOp("connect", cid, FALSE, NoSocket, ManagerClosed \ {cid}, ManagerCases)
    /\ UNCHANGED <<sessions, nextId, clock, ticks, budget, lock, reaper, connection_sessions,
                   worker, loop, rest, appended>>

ManagerBind(cid, sid) ==
    /\ events < budget
    /\ events' = events + 1
    /\ connection_sessions' = [connection_sessions EXCEPT ![cid] = sid]
    /\ lastOp' = ManagerOp("bind", cid, FALSE, NoSocket, ManagerClosed, ManagerCases)
    /\ UNCHANGED <<sessions, nextId, clock, ticks, budget, lock, reaper, active_connections,
                   worker, loop, rest, appended>>

ManagerDisconnects(cid) ==
    LET result == ManagerDisconnected(active_connections, connection_sessions, cid)
        case == IF active_connections[cid] # NoSocket
                THEN (IF connection_sessions[cid] # NoSid
                      THEN "connected, bound" ELSE "connected, unbound")
                ELSE (IF cid \in ManagerClosed
                      THEN "already disconnected" ELSE "never connected")
    IN  /\ events < budget
        /\ events' = events + 1
        /\ active_connections' = result.active_connections
        /\ connection_sessions' = result.connection_sessions
        /\ lastOp' = ManagerOp("disconnect", cid, result.raised, NoSocket,
                               ManagerClosed \cup {cid}, ManagerCases \cup {case})
        /\ UNCHANGED <<sessions, nextId, clock, ticks, budget, lock, reaper, worker, loop,
                       rest, appended>>

ManagerSends(cid) ==
    LET result == ManagerSent(active_connections, cid)
    IN  /\ events < budget
        /\ events' = events + 1
        /\ lastOp' = ManagerOp("send_json", cid, result.raised, result.to, ManagerClosed,
                               IF cid \in ManagerClosed
                               THEN ManagerCases \cup {"push after disconnect"}
                               ELSE ManagerCases)
        /\ UNCHANGED <<sessions, nextId, clock, ticks, budget, lock, reaper,
                       active_connections, connection_sessions, worker, loop, rest, appended>>

NextManager ==
    \/ \E cid \in ClientIds : ManagerConnect("w1", cid)
    \/ \E cid \in ClientIds, sid \in ManagerSids : ManagerBind(cid, sid)
    \/ \E cid \in ClientIds : ManagerDisconnects(cid)
    \/ \E cid \in ClientIds : ManagerSends(cid)

SpecManager == InitWith(MaxManagerOps) /\ [][NextManager]_vars


(***************************************************************************)
(* SpecDebate: one connection opens a debate or chat session, changes its  *)
(* mode and sends text messages that the LLM answers, shortly or with a    *)
(* reply longer than ARGUMENT_PREFIX characters.                           *)
(***************************************************************************)
DebateModeConfigs ==
    { <<"debate", EmptyDict>>, <<"debate", FullConfig>>, <<"chat", EmptyDict>> }
LongReply == [i \in 1..(ARGUMENT_PREFIX + 1) |-> IF i <= ARGUMENT_PREFIX THEN "a" ELSE "z"]
DebateAnswers ==
    { [client |-> TRUE, ok |-> TRUE, content |-> <<"o", "k", " ">>],
      [client |-> TRUE, ok |-> TRUE, content |-> LongReply] }

NextDebate ==
    \/ Connect("w1", "a")
    \/ \E sid \in HandedOut \cup {NoSid}, mc \in DebateModeConfigs :
          InitBegin("w1", sid, mc[1], mc[2])
    \/ \E llm \in LLMGreets : InitGreeting("w1", llm)
    \/ InitRespond("w1")
    \/ \E mc \in DebateModeConfigs : ModeBegin("w1", mc[1], mc[2])
    \/ ModeRespond("w1")
    \/ TextBegin("w1", <<"hi">>)
    \/ TextCall("w1")
    \/ \E llm \in DebateAnswers : TextLLMOk("w1", llm)
    \/ WorkerReturn("w1")

SpecDebate == InitWith(MaxDebateEvents) /\ [][NextDebate]_vars


(***************************************************************************)
(* SpecLive: one connection that opens sessions and sends text messages,   *)
(* and the cleanup thread, with time that passes: the clock advances as    *)
(* long as that makes a difference (a session is in the store that has not *)
(* expired yet, or the cleanup thread sleeps next to a store that is not   *)
(* empty).  The thread is scheduled fairly and time passes.                *)
(***************************************************************************)
Expired(session, now) == now - session.last_activity > DEFAULT_MAX_AGE

Elapse(d) ==
    /\ \/ \E sid \in DOMAIN sessions : ~Expired(sessions[sid], clock)
       \/ /\ DOMAIN sessions # {}
          /\ reaper.pc = "sleep"
          /\ clock < reaper.since + CLEANUP_INTERVAL
    /\ clock' = clock + d
    /\ UNCHANGED <<sessions, nextId, ticks, events, lock, reaper, active_connections,
                   connection_sessions, worker, loop, rest, storeOnly>>

NextLive ==
    \/ Connect("w1", "a")
    \/ Disconnect("w1")
    \/ \E sid \in HandedOut \cup {NoSid} : InitBegin("w1", sid, "chat", EmptyDict)
    \/ \E llm \in LLMGreets : InitGreeting("w1", llm)
    \/ InitRespond("w1")
    \/ TextBegin("w1", <<"hi">>)
    \/ TextCall("w1")
    \/ \E llm \in LLMOutcomes : TextLLMFail("w1", llm)
    \/ \E llm \in LLMOutcomes : TextLLMOk("w1", llm)
    \/ WorkerReturn("w1")
    \/ \E d \in TickSteps : Elapse(d)
    \/ ReaperAcquire
    \/ ReaperClean

SpecLive ==
    /\ InitWith(MaxLiveEvents)
    /\ [][NextLive]_vars
    /\ WF_vars(\E d \in TickSteps : Elapse(d))
    /\ WF_vars(ReaperAcquire)
    /\ WF_vars(ReaperClean)


(***************************************************************************)
(* SpecTwin: two websocket connections opened under the same client id,    *)
(* which open sessions, send text messages and disconnect.                 *)
(***************************************************************************)
TwinId == "a"

NextTwin ==
    \/ \E w \in Sockets : Connect(w, TwinId)
    \/ \E w \in Sockets : Disconnect(w)
    \/ \E w \in Sockets, sid \in HandedOut \cup {NoSid} : InitBegin(w, sid, "chat", EmptyDict)
    \/ \E w \in Sockets, llm \in LLMGreets : InitGreeting(w, llm)
    \/ \E w \in Sockets : InitRespond(w)
    \/ \E w \in Sockets : TextBegin(w, <<"hi">>)
    \/ \E w \in Sockets : TextCall(w)
    \/ \E w \in Sockets, llm \in LLMAnswers : TextLLMOk(w, llm)
    \/ \E w \in Sockets : WorkerReturn(w)

SpecTwin == InitWith(MaxTwinEvents) /\ [][NextTwin]_vars


(***************************************************************************)
(* Properties of the store (SpecCap, SpecStore)                            *)
(***************************************************************************)
\* the store call last made was `op` on a session that was in the store
OnExisting(op) ==
    /\ lastOp.op = op
    /\ lastOp.sid \in DOMAIN lastOp.pre

\* the store call last made was `op` on an identifier that was not in the store
OnAbsent(op) ==
    /\ lastOp.op = op
    /\ lastOp.sid \notin DOMAIN lastOp.pre

\* C1: a history never holds more than 30 turns, and after n turns have been
\* added to a session its history is the last min(n, 30) of them, in the
\* order they were added: the 31st and every later add_message evicts the
\* oldest turn and keeps the others in order.
C1_HistoryIsLastThirty ==
    \A sid \in DOMAIN sessions :
        LET h == sessions[sid].conversation_history
            a == appended[sid]
        IN  /\ Len(h) <= 30
            /\ Len(h) = Min(Len(a), 30)
            /\ \A i \in 1..Len(h) : h[i] = a[Len(a) - Len(h) + i]

\* add_message has just been applied to a session that held 30 turns: its
\* oldest turn is gone and the new one is last
C1_Witness ==
    /\ OnExisting("add_message")
    /\ Len(lastOp.pre[lastOp.sid].conversation_history) = 30
    /\ Len(appended[lastOp.sid]) > 31
    /\ sessions[lastOp.sid].conversation_history[30].text = lastOp.text
    /\ sessions[lastOp.sid].conversation_history[1]
           = lastOp.pre[lastOp.sid].conversation_history[2]

\* the fields of the context of each mode
ModeFields(mode) ==
    IF mode = "interview"
    THEN {"role", "company", "question_index", "total_questions", "scores", "evaluations"}
    ELSE IF mode = "debate"
    THEN {"topic", "stance", "arguments_made", "counter_arguments"}
    ELSE {"user_preferences", "emotional_tone"}

\* C5: change_mode on an existing session sets the mode to the new mode and
\* makes the context the one a session newly created with that mode and
\* config has (its fields are those of the new mode, the options come from
\* the supplied config or are the defaults, the progress fields are reset),
\* whatever the old mode and context were; the history is unchanged.
C5_ChangeModeReplacesContext ==
    OnExisting("change_mode") =>
        LET new == sessions[lastOp.sid]
            old == lastOp.pre[lastOp.sid]
            fresh == CreateSession(EmptyDict, 0, lastOp.mode, lastOp.config, 0).store[0]
            data == new.mode_specific_data
        IN  /\ new.mode = lastOp.mode
            /\ data = fresh.mode_specific_data
            /\ DOMAIN data = ModeFields(lastOp.mode)
            /\ lastOp.mode = "interview" =>
                  /\ data.question_index = 0
                  /\ data.scores = <<>> /\ data.evaluations = <<>>
                  /\ "role" \in DOMAIN lastOp.config => data.role = lastOp.config.role
                  /\ "role" \notin DOMAIN lastOp.config => data.role = "Software Engineer"
            /\ lastOp.mode = "debate" =>
                  /\ data.arguments_made = <<>> /\ data.counter_arguments = <<>>
                  /\ "topic" \in DOMAIN lastOp.config => data.topic = lastOp.config.topic
                  /\ "topic" \notin DOMAIN lastOp.config => data.topic = "AI in society"
            /\ new.conversation_history = old.conversation_history

\* change_mode to the mode the session already has, on a session with a
\* history and a context that differs from the fresh one
C5_Witness ==
    /\ OnExisting("change_mode")
    /\ lastOp.pre[lastOp.sid].mode = lastOp.mode
    /\ lastOp.pre[lastOp.sid].mode_specific_data # sessions[lastOp.sid].mode_specific_data
    /\ lastOp.pre[lastOp.sid].conversation_history # <<>>

\* C7: add_message, change_mode and update_mode_data on an existing session
\* each set last_activity to the time of the call, and no store call
\* decreases the last_activity of a session.
C7_MutationsTouchLastActivity ==
    /\ (OnExisting("add_message") \/ OnExisting("change_mode")
            \/ OnExisting("update_mode_data"))
          => sessions[lastOp.sid].last_activity = lastOp.now
    /\ \A sid \in DOMAIN sessions \cap DOMAIN lastOp.pre :
          sessions[sid].last_activity >= lastOp.pre[sid].last_activity

\* C8: cleanup_old_sessions(max_age) at time now removes the sessions with
\* now - last_activity > max_age and no other: a session with
\* now - last_activity <= max_age, the boundary included, is kept unchanged,
\* and no session appears.
C8_CleanupRemovesExactlyExpired ==
    lastOp.op = "cleanup_old_sessions" =>
        /\ DOMAIN sessions \subseteq DOMAIN lastOp.pre
        /\ \A sid \in DOMAIN lastOp.pre :
              IF lastOp.now - lastOp.pre[sid].last_activity > lastOp.max_age
              THEN sid \notin DOMAIN sessions
              ELSE sid \in DOMAIN sessions /\ sessions[sid] = lastOp.pre[sid]

\* a cleanup that removed one session and kept another that was exactly
\* max_age old
C8_Witness ==
    /\ lastOp.op = "cleanup_old_sessions"
    /\ lastOp.max_age > 0
    /\ \E gone \in DOMAIN lastOp.pre \ DOMAIN sessions : TRUE
    /\ \E kept \in DOMAIN sessions :
          lastOp.now - lastOp.pre[kept].last_activity = lastOp.max_age

\* C9: for an identifier that is not in the store, get_session returns None
\* and add_message, change_mode, update_mode_data and delete_session leave
\* the store as it was (the session is not created again) and do not raise;
\* delete_session removes the session it names and nothing else, so that a
\* second delete_session of the same identifier changes nothing.
C9_AbsentIsNoOp ==
    /\ (OnAbsent("get_session") \/ OnAbsent("add_message") \/ OnAbsent("change_mode")
            \/ OnAbsent("update_mode_data") \/ OnAbsent("delete_session"))
          => /\ sessions = lastOp.pre
             /\ ~lastOp.raised
             /\ lastOp.ret = <<>>
    /\ lastOp.op = "delete_session" =>
          /\ ~lastOp.raised
          /\ DOMAIN sessions = DOMAIN lastOp.pre \ {lastOp.sid}
          /\ \A sid \in DOMAIN sessions : sessions[sid] = lastOp.pre[sid]

\* delete_session of an identifier that create_session returned and that is
\* no longer in the store (it was deleted or cleaned up before)
C9_Witness ==
    /\ OnAbsent("delete_session")
    /\ lastOp.sid \in 1..nextId


(***************************************************************************)
(* Properties of the handlers (Spec)                                       *)
(***************************************************************************)
\* the types of the events a handler has sent, in the order sent
Types(out) == [i \in 1..Len(out) |-> out[i].type]

\* the handler of a text-message event has returned after generate_response
\* raised / after generate_response returned
TextFailed(w) ==
    worker[w].pc = "done" /\ worker[w].handler = "text" /\ worker[w].failed
TextAnswered(w) ==
    worker[w].pc = "done" /\ worker[w].handler = "text" /\ worker[w].got /\ ~worker[w].failed

\* the user turn of the text-message event that w handles
UserTurn(w) == Turn("user", worker[w].text, worker[w].at)

\* C2 as stated: when the handler of a text turn whose LLM call failed, on a
\* session that existed, finishes, the session is in the store with the
\* user's turn as its last turn, and the events of the turn are ai-thinking
\* and one error.
C2_HistoryEndsWithUserTurn ==
    \A w \in Sockets :
        (TextFailed(w) /\ worker[w].pre # <<>>) =>
            /\ Types(worker[w].out) = <<"ai-thinking", "error">>
            /\ worker[w].post # <<>>
            /\ LET h == worker[w].post[1].conversation_history
               IN  h # <<>> /\ h[Len(h)].role = "user" /\ h[Len(h)].text = worker[w].text

\* C2, amended: when the handler of a text turn whose LLM call failed
\* finishes, the events of the turn are ai-thinking and one error (no
\* ai-response), and the session, if it is still in the store, has the
\* history it had when the event arrived followed by the user's turn, and no
\* AI turn; when the handler of a text turn whose LLM call succeeded
\* finishes, the session, if still in the store, has the history it had when
\* the event arrived (the user turn of an earlier failed turn included)
\* followed by the user's turn and the AI turn.
C2_FailedTurnKeepsUserTurnOnly ==
    \A w \in Sockets :
        LET me == worker[w]
        IN  /\ TextFailed(w) =>
                /\ Types(me.out) = <<"ai-thinking", "error">>
                /\ me.post # <<>> =>
                      me.post[1].conversation_history
                          = Append(me.pre[1].conversation_history, UserTurn(w))
            /\ TextAnswered(w) =>
                /\ Types(me.out) = <<"ai-thinking", "ai-response">>
                /\ me.out[2].text = me.reply
                /\ me.post # <<>> =>
                     LET h == me.post[1].conversation_history
                     IN  /\ Len(h) = Len(me.pre[1].conversation_history) + 2
                         /\ SubSeq(h, 1, Len(h) - 1)
                               = Append(me.pre[1].conversation_history, UserTurn(w))
                         /\ h[Len(h)].role = "ai" /\ h[Len(h)].text = me.reply

\* a text turn has been answered on a session whose history ended with the
\* user turn of a failed turn, which is still there
C2_Witness ==
    \E w \in Sockets :
        /\ TextAnswered(w)
        /\ worker[w].post # <<>>
        /\ LET before == worker[w].pre[1].conversation_history
               h == worker[w].post[1].conversation_history
           IN  /\ before # <<>>
               /\ before[Len(before)].role = "user"
               /\ h[Len(before)] = before[Len(before)]

\* C3 as stated: when the handler of a text turn whose LLM call failed
\* finishes, the session is as it was when the event arrived.
C3_FailedTurnWritesNothing ==
    \A w \in Sockets : TextFailed(w) => worker[w].post = worker[w].pre

\* C3, amended: when the handler of a text turn whose LLM call failed
\* finishes, and no other request was handled during the turn, the session,
\* if it is still in the store, is as it was when the event arrived but for
\* the user's turn, added to its history, and its last_activity, the time of
\* that add_message: mode, mode context, identifier and creation time are
\* untouched, and nothing is undone.
C3_FailedTurnKeepsItsUserTurn ==
    \A w \in Sockets :
        (TextFailed(w) /\ worker[w].post # <<>> /\ events = worker[w].ev) =>
            worker[w].post[1]
                = [worker[w].pre[1] EXCEPT
                      !.conversation_history = Append(@, UserTurn(w)),
                      !.last_activity = worker[w].at]

\* a failed text turn on a session that had a history, handled later than
\* the session's last activity
C3_Witness ==
    \E w \in Sockets :
        /\ TextFailed(w)
        /\ worker[w].post # <<>>
        /\ events = worker[w].ev
        /\ worker[w].pre[1].conversation_history # <<>>
        /\ worker[w].at > worker[w].pre[1].last_activity

\* C4: the mode of every session is one of the three modes and the fields
\* of its context are the fields of that mode.
C4_ContextHasFieldsOfMode ==
    \A sid \in DOMAIN sessions :
        /\ sessions[sid].mode \in Modes
        /\ DOMAIN sessions[sid].mode_specific_data = ModeFields(sessions[sid].mode)

\* C6: a change-mode event on a connection whose session is not in the store
\* is answered with one error event, and nothing else; with the session in
\* the store it is answered with mode-changed and then ai-response.
C6_ModeChangeNeedsSession ==
    \A w \in Sockets :
        LET me == worker[w]
        IN  (me.handler = "mode" /\ me.pc \in {"mode_changed_sent", "done"}) =>
                IF me.pre = <<>>
                THEN Types(me.out) = <<"error">>
                ELSE Types(me.out) = IF me.pc = "done"
                                     THEN <<"mode-changed", "ai-response">>
                                     ELSE <<"mode-changed">>

InitSent(w) ==
    worker[w].handler = "init" /\ worker[w].pc \in {"init_ready_sent", "done"}

\* C10 as stated: when handle_init_session sends its events the greeting
\* has been added to the history of the session as an AI turn.
C10_GreetingStoredBeforeEvents ==
    \A w \in Sockets :
        InitSent(w) =>
            /\ worker[w].post # <<>>
            /\ LET h == worker[w].post[1].conversation_history
               IN  h # <<>> /\ h[Len(h)].role = "ai" /\ h[Len(h)].text = worker[w].text

\* C10, amended: handle_init_session sends session-ready and then
\* ai-response, both to the socket of the connection and with the same
\* greeting; it has called create_session exactly when the event carried no
\* sessionId or one that was not in the store, and otherwise kept the named
\* session, adding the greeting to it; the greeting is the last turn (an AI
\* turn) of the session when session-ready is sent, provided the session was
\* still in the store when generate_greeting returned: a session that the
\* cleanup thread removed during that call gets no turn and is not created
\* again, and the two events are sent all the same.
C10_InitSendsReadyThenResponse ==
    \A w \in Sockets :
        LET me == worker[w]
        IN  /\ me.handler = "init" =>
                /\ me.created <=> (me.req = NoSid \/ me.pre = <<>>)
                /\ ~me.created => me.sid = me.req
                /\ me.created => me.sid # me.req /\ me.sid \in 1..nextId
            /\ InitSent(w) =>
                /\ Types(me.out) = IF me.pc = "done"
                                   THEN <<"session-ready", "ai-response">>
                                   ELSE <<"session-ready">>
                /\ \A i \in DOMAIN me.out : me.out[i].to = w /\ me.out[i].text = me.text
                /\ me.out[1].sessionId = me.sid
                /\ me.post # <<>> =>
                      LET h == me.post[1].conversation_history
                      IN  h # <<>> /\ h[Len(h)] = Turn("ai", me.text, me.at)
                /\ me.post = <<>> => me.sid \notin DOMAIN sessions
                /\ (~me.created /\ me.post # <<>>) =>
                      me.post[1]
                          = [me.pre[1] EXCEPT
                                !.conversation_history = Append(@, Turn("ai", me.text, me.at)),
                                !.last_activity = me.at]

\* handle_init_session has sent both events for a session that existed, had
\* a history, and that it kept, with the greeting stored
C10_Witness ==
    \E w \in Sockets :
        /\ InitSent(w)
        /\ worker[w].pc = "done"
        /\ ~worker[w].created
        /\ worker[w].post # <<>>
        /\ Len(worker[w].post[1].conversation_history) > 1


\* C11: a text-message event whose text is empty after strip(), or that has
\* no text, makes the handler return at once: no turn is added, the store
\* and the connection registry are as before, no collaborator is called (the
\* handler is done in this one step) and no event is sent.
C11_EmptyTextIsIgnored ==
    [][\A w \in Sockets :
          (worker[w].pc = "idle" /\ worker'[w].handler = "text" /\ worker'[w].text = <<>>) =>
              /\ worker'[w].pc = "done"
              /\ worker'[w].out = <<>>
              /\ ~worker'[w].got /\ ~worker'[w].failed /\ worker'[w].reply = <<>>
              /\ sessions' = sessions
              /\ connection_sessions' = connection_sessions
              /\ active_connections' = active_connections]_vars

\* a text-message event without text has been handled on a connection bound
\* to a session that has a history
C11_Witness ==
    \E w \in Sockets :
        /\ worker[w].handler = "text"
        /\ worker[w].pc = "done"
        /\ worker[w].text = <<>>
        /\ worker[w].pre # <<>>
        /\ worker[w].pre[1].conversation_history # <<>>
        /\ Snapshot(worker[w].sid) = worker[w].pre


\* the handler of w is inside a call of the LLM collaborator
\* (generate_greeting, generate_response)
InLLMCall(w) == worker[w].pc \in {"init_greeting", "text_llm"}

\* C12: while a handler is inside a call of the LLM collaborator it does not
\* hold the store lock, and nothing else is held up by the call: the event
\* loop is free, so that the handlers of other connections and requests can
\* run and make their store calls.
C12_ExternalCallBlocksNobody ==
    \A w \in Sockets :
        InLLMCall(w) =>
            /\ lock # w
            /\ loop = "free"


\* C13: the writes to the store are made one at a time under the lock.  The
\* store methods called by the handlers take the lock, write and release it
\* in one step, which they can take only with the lock free; the cleanup
\* thread is between taking the lock and releasing it exactly when it holds
\* the lock, and the store it then cleans is the store it found when it took
\* the lock: no write of a handler falls between, so that the store is
\* always the result of the calls made so far, applied one after the other.
C13_WritesAreSerialized ==
    /\ lock \in {"free", "reaper"}
    /\ (reaper.pc = "locked") <=> (lock = "reaper")
    /\ reaper.pc = "locked" => sessions = reaper.seen

\* the cleanup thread holds the lock over a store with a session while a
\* handler is in a turn on that session and has a store call still to make
C13_Witness ==
    /\ lock = "reaper"
    /\ \E w \in Sockets :
          /\ worker[w].pc \in {"init_greeting", "text_llm"}
          /\ worker[w].sid \in DOMAIN sessions


\* C14: what get_session returned is a snapshot: when the handler of a text
\* turn reads the session it got, to call generate_response, it reads the
\* value the session had when get_session returned, whatever was written to
\* the store since.
C14_GetReturnsSnapshot ==
    \A w \in Sockets :
        (worker[w].pc = "text_llm" /\ worker[w].used # <<>>) =>
            worker[w].used = worker[w].seen


\* C15: in interview mode a text turn that the LLM answers sets the question
\* index to the smaller of the old index plus one and the number of
\* questions when the reply contains a question mark, and leaves it as it
\* was when the reply contains none; so the index of a session that only
\* took such turns is the number of its question replies, at most the total
\* (from 0 of 5: three question replies give 3, a reply without a question
\* keeps 3, nine question replies give 5).
IsQuestion(text) == \E i \in 1..Len(text) : text[i] = "?"
QuestionReplies(history) ==
    Cardinality({i \in 2..Len(history) :
                    history[i].role = "ai" /\ IsQuestion(history[i].text)})

C15_QuestionIndexCountsQuestions ==
    /\ \A w \in Sockets :
          (TextAnswered(w) /\ worker[w].used # <<>> /\ worker[w].used[1].mode = "interview") =>
              LET old == worker[w].used[1].mode_specific_data.question_index
                  total == worker[w].used[1].mode_specific_data.total_questions
                  new == worker[w].post[1].mode_specific_data.question_index
              IN  /\ worker[w].post # <<>>
                  /\ IsQuestion(worker[w].reply) =>
                        new = (IF old + 1 <= total THEN old + 1 ELSE total)
                  /\ ~IsQuestion(worker[w].reply) => new = old
    /\ \A sid \in DOMAIN sessions :
          LET asked == QuestionReplies(sessions[sid].conversation_history)
              total == sessions[sid].mode_specific_data.total_questions
          IN  sessions[sid].mode_specific_data.question_index =
                  (IF asked <= total THEN asked ELSE total)

\* nine question replies in a session of five questions: the index is 5, and
\* was 5 already when the last of them was processed
C15_Witness ==
    \E sid \in DOMAIN sessions :
        /\ sessions[sid].mode_specific_data.total_questions = DEFAULT_TOTAL_QUESTIONS
        /\ QuestionReplies(sessions[sid].conversation_history) = 9
        /\ sessions[sid].mode_specific_data.question_index = 5
        /\ TextAnswered("w1") /\ worker["w1"].used[1].mode_specific_data.question_index = 5


\* C16: the question index of an interview session whose number of questions
\* is a non-negative integer is always between 0 and that number, and no
\* step other than a mode change of the session makes it smaller, also when
\* several connections bound to the session have turns in flight.
ModeChangeOf(sid) ==
    \/ \E w \in Sockets :
          worker[w].pc = "idle" /\ worker'[w].handler = "mode" /\ worker'[w].sid = sid
    \/ rest.pc = "change_mode" /\ rest'.pc # "change_mode" /\ rest.sid = sid

QuestionIndexInRange ==
    \A sid \in DOMAIN sessions :
        LET data == sessions[sid].mode_specific_data
        IN  (sessions[sid].mode = "interview" /\ data.total_questions \in Nat) =>
                (data.question_index \in Nat /\ data.question_index <= data.total_questions)

QuestionIndexGrows ==
    \A sid \in DOMAIN sessions \cap DOMAIN sessions' :
        (/\ sessions[sid].mode = "interview"
         /\ sessions'[sid].mode = "interview"
         /\ ~ModeChangeOf(sid)) =>
            sessions'[sid].mode_specific_data.question_index >=
                sessions[sid].mode_specific_data.question_index

C16_QuestionIndexBoundedAndMonotonic ==
    []QuestionIndexInRange /\ [][QuestionIndexGrows]_vars

\* two connections are bound to one interview session; the turn of one began
\* at index 0, was overtaken by a turn of the other that asked a question,
\* and asked a question itself: the index is 2
C16_Witness ==
    \E sid \in DOMAIN sessions :
        /\ connection_sessions["a"] = sid /\ connection_sessions["b"] = sid
        /\ \E w \in Sockets :
              /\ TextAnswered(w) /\ worker[w].sid = sid
              /\ worker[w].seen[1].mode_specific_data.question_index = 0
              /\ worker[w].used[1].mode_specific_data.question_index = 1
              /\ worker[w].post[1].mode_specific_data.question_index = 2
        /\ sessions[sid].mode_specific_data.question_index = 2


\* C17: after disconnect(c), c is in neither mapping of the connection
\* manager and no error was raised, whether c was connected (with or
\* without a bound session), never connected or already disconnected; a
\* send_json to c after its disconnect sends nothing and raises no error.
C17_DisconnectForgetsConnection ==
    /\ lastOp.op = "disconnect" =>
          /\ ~lastOp.raised
          /\ active_connections[lastOp.cid] = NoSocket
          /\ connection_sessions[lastOp.cid] = NoSid
          /\ \A c \in ClientIds \ {lastOp.cid} :
                /\ active_connections[c] = lastOp.active[c]
                /\ connection_sessions[c] = lastOp.bound[c]
    /\ (lastOp.op = "send_json" /\ lastOp.cid \in lastOp.closed) =>
          /\ ~lastOp.raised
          /\ lastOp.to = NoSocket

\* disconnect was called in each of the four kinds of state, and send_json
\* after a disconnect; the last call is the disconnect of a connected id
\* with a bound session
C17_Witness ==
    /\ lastOp.op = "disconnect"
    /\ lastOp.active[lastOp.cid] # NoSocket /\ lastOp.bound[lastOp.cid] # NoSid
    /\ lastOp.cases = {"connected, bound", "connected, unbound", "already disconnected",
                       "never connected", "push after disconnect"}

\* C18: the stored mode of every session is chat, interview or debate,
\* whatever mode value (or none) the events and requests carried.
C18_StoredModeIsAMode ==
    \A sid \in DOMAIN sessions : sessions[sid].mode \in {"chat", "interview", "debate"}

\* C19 as stated: a change-mode request for an identifier that is not in the
\* store is answered 404 and changes nothing; answered with success, it
\* returns the identifier and the mode and the stored session has the
\* requested mode.  A history request for an unknown identifier is answered
\* 404, otherwise with the history and mode of the session, which it does
\* not modify.
RestAnswers(op) == rest.pc # "responded" /\ rest'.pc = "responded" /\ rest'.op = op

RestNotFound ==
    \A op \in {"change_mode", "history"} :
        (rest.pc = "idle" /\ rest'.op = op /\ rest'.sid \notin DOMAIN sessions) =>
            /\ rest'.pc = "responded" /\ rest'.status = 404
            /\ sessions' = sessions

RestHistoryReturned ==
    (rest.pc = "idle" /\ rest'.op = "history" /\ rest'.sid \in DOMAIN sessions) =>
        /\ rest'.pc = "responded" /\ rest'.status = 200
        /\ rest'.history = sessions[rest'.sid].conversation_history
        /\ rest'.mode = sessions[rest'.sid].mode
        /\ sessions' = sessions

C19_RestChangeModeStoresMode ==
    [][/\ RestNotFound
       /\ RestHistoryReturned
       /\ (RestAnswers("change_mode") /\ rest'.status = 200) =>
             /\ rest'.sid = rest.sid /\ rest'.mode = rest.mode
             /\ rest'.sid \in DOMAIN sessions'
             /\ sessions'[rest'.sid].mode = rest'.mode]_vars

\* C19, amended: as above, but a change-mode request answered with success
\* leaves the stored session with the requested mode only if the session is
\* still in the store when change_mode runs; when the cleanup thread removed
\* it after the endpoint's lookup, the answer is success all the same and
\* the store is left as it was.
C19_RestChangeModeStoresModeIfStillStored ==
    [][/\ RestNotFound
       /\ RestHistoryReturned
       /\ (RestAnswers("change_mode") /\ rest'.status = 200) =>
             /\ rest'.sid = rest.sid /\ rest'.mode = rest.mode
             /\ rest.sid \in DOMAIN sessions =>
                   /\ rest.sid \in DOMAIN sessions'
                   /\ sessions'[rest.sid].mode = rest.mode
                   /\ \A other \in DOMAIN sessions \ {rest.sid} :
                         other \in DOMAIN sessions' /\ sessions'[other] = sessions[other]
             /\ rest.sid \notin DOMAIN sessions => sessions' = sessions]_vars

\* a change-mode request was answered with success although the cleanup
\* thread had removed the session after the lookup
C19_Witness ==
    /\ rest.pc = "responded" /\ rest.op = "change_mode" /\ rest.status = 200
    /\ rest.post = <<>>
    /\ reaper.pc = "sleep"

\* C20: the context that create_session and change_mode store takes an option
\* that the config carries as given, and for a missing option the default:
\* interview role "Software Engineer", company "a leading tech company", 5
\* questions; debate topic "AI in society", stance "PRO".  The question
\* index starts at 0 and scores, evaluations, arguments made and counter
\* arguments start empty.
C20_ContextDefaults ==
    (lastOp.op = "create_session" \/ OnExisting("change_mode")) =>
        LET data == sessions[lastOp.sid].mode_specific_data
            config == lastOp.config
        IN  /\ lastOp.mode = "interview" =>
                  /\ data.role = Get(config, "role", "Software Engineer")
                  /\ data.company = Get(config, "company", "a leading tech company")
                  /\ data.total_questions = Get(config, "totalQuestions", 5)
                  /\ data.question_index = 0
                  /\ data.scores = <<>> /\ data.evaluations = <<>>
            /\ lastOp.mode = "debate" =>
                  /\ data.topic = Get(config, "topic", "AI in society")
                  /\ data.stance = Get(config, "stance", "PRO")
                  /\ data.arguments_made = <<>> /\ data.counter_arguments = <<>>

\* the turns of a history from the one that opened the session's present
\* mode on: the transition message of the last change-mode event, or the
\* whole history when there was none
TransitionTexts ==
    { GenerateModeTransition(mc[1], mc[2]) : mc \in DebateModeConfigs \cup ModeConfigs }
IsTransition(turn) == turn.role = "ai" /\ turn.text \in TransitionTexts
SinceModeEntry(history) ==
    LET marks == {i \in 1..Len(history) : IsTransition(history[i])}
        from == IF marks = {} THEN 1 ELSE CHOOSE i \in marks : \A j \in marks : j <= i
    IN  SubSeq(history, from, Len(history))
IsAiTurn(turn) == turn.role = "ai"
IsReplyTurn(turn) ==
    turn.role = "ai" /\ turn.text \in {Strip(llm.content) : llm \in DebateAnswers}
FirstFifty(text) == SubSeq(text, 1, IF Len(text) <= 50 THEN Len(text) ELSE 50)

\* C21 as stated: in a debate session, arguments made has one entry for each
\* AI turn appended to the history since the session entered debate mode,
\* each the first 50 characters of the turn's text, in order.
C21_ArgumentPerAiTurn ==
    \A sid \in DOMAIN sessions :
        sessions[sid].mode = "debate" =>
            LET turns == SelectSeq(SinceModeEntry(sessions[sid].conversation_history), IsAiTurn)
                made == sessions[sid].mode_specific_data.arguments_made
            IN  /\ Len(made) = Len(turns)
                /\ \A i \in 1..Len(made) : made[i] = FirstFifty(turns[i].text)

\* C21, amended: arguments made has one entry for each AI reply to a text
\* message since the session entered debate mode, each the first 50
\* characters of the reply, in order; the greeting of init-session and the
\* transition message of change-mode are AI turns that add no entry.
C21_ArgumentPerReply ==
    \A sid \in DOMAIN sessions :
        sessions[sid].mode = "debate" =>
            LET turns == SelectSeq(SinceModeEntry(sessions[sid].conversation_history), IsReplyTurn)
                made == sessions[sid].mode_specific_data.arguments_made
            IN  /\ Len(made) = Len(turns)
                /\ \A i \in 1..Len(made) : made[i] = FirstFifty(turns[i].text)

\* a session that entered debate mode by a change-mode event has two
\* entries: a short reply, and the first 50 characters of a longer one
C21_Witness ==
    \E sid \in DOMAIN sessions :
        LET history == sessions[sid].conversation_history
            made == sessions[sid].mode_specific_data.arguments_made
        IN  /\ sessions[sid].mode = "debate"
            /\ Len(made) = 2
            /\ Len(made[1]) < 50 /\ Len(made[2]) = 50
            /\ Len(history[Len(history)].text) > 50
            /\ \E i \in 1..Len(history) : IsTransition(history[i])

\* C22: the cleanup thread runs for as long as the process: it is always
\* asleep or cleaning under the lock, no connection holds the lock it
\* waits for, and, the thread being scheduled fairly, every session in the
\* store is eventually removed from it once nothing touches it any more.
ReaperRuns ==
    /\ reaper.pc \in {"sleep", "locked"}
    /\ reaper.pc = "locked" => lock = "reaper"
    /\ reaper.pc = "sleep" => lock = "free"

C22_ReaperRemovesIdleSessions ==
    /\ []ReaperRuns
    /\ \A sid \in 1..MaxSessions :
          [](sid \in DOMAIN sessions => <>(sid \notin DOMAIN sessions))

\* the thread has removed the session of a connection that is still open
\* and bound to it, and sleeps again
C22_Witness ==
    /\ nextId >= 1
    /\ sessions = EmptyDict
    /\ reaper.pc = "sleep" /\ reaper.since > DEFAULT_MAX_AGE
    /\ connection_sessions["a"] \in 1..nextId
    /\ events = budget

\* C23: the mode carried by a session-ready event is the stored mode of the
\* session it names, as the store holds it when the event is sent, also
\* when init-session names an existing session and carries another mode.
C23_SessionReadyReportsStoredMode ==
    \A w \in Sockets :
        (worker[w].pc = "init_ready_sent" /\ worker[w].post # <<>>) =>
            LET ready == worker[w].out[Len(worker[w].out)]
            IN  /\ ready.type = "session-ready"
                /\ ready.sessionId = worker[w].post[1].session_id
                /\ ready.mode = worker[w].post[1].mode

\* C24: the handle and the session binding registered under the client id of
\* a connection are removed only by the disconnect of that connection: no
\* step in which a connection stays open removes the handle or the binding
\* of its client id, also when another connection under the same id
\* disconnects.
Open(w) == worker[w].pc # "closed"

C24_RegistrationOutlivesOtherDisconnect ==
    [][\A w \in Sockets :
          (Open(w) /\ worker'[w].pc # "closed") =>
              LET cid == worker[w].cid
              IN  /\ active_connections[cid] # NoSocket => active_connections'[cid] # NoSocket
                  /\ connection_sessions[cid] # NoSid => connection_sessions'[cid] # NoSid]_vars

==============================================================================
